---- MODULE Spec2Model ----
(***************************************************************************)
(* Needleman-Wunsch global alignment as implemented in src/main.py:        *)
(* PopulateMatrix fills the scoring matrix, BackTracking walks it back     *)
(* from the bottom-right cell and emits one alignment and the score.       *)
(*                                                                         *)
(* Strings are sequences of one-character strings; Python's 0-based        *)
(* seq[k - 1] is the 1-based seq[k] here.  A matrix is a function          *)
(* row -> column -> cell, rows and columns counted from 0 as in numpy; a   *)
(* cell is None (the value np.full puts there) or <<v>> for the integer v. *)
(***************************************************************************)
EXTENDS Integers, Sequences, FiniteSets, TLC

VARIABLES
    sequence1,       \* PopulateMatrix / BackTracking argument
    sequence2,       \* PopulateMatrix / BackTracking argument
    seq_rows,        \* PopulateMatrix argument
    seq_columns,     \* PopulateMatrix argument
    matrix,          \* matx, the numpy array shared by both functions
    row,             \* PopulateMatrix loop variable: next row to fill
    column,          \* PopulateMatrix loop variable: next column to fill
    row_index,       \* BackTracking local
    column_index,    \* BackTracking local
    seq_one_final,   \* BackTracking local
    seq_two_final,   \* BackTracking local
    result,          \* the score written into the returned line: matrix[-1, -1]
    pc,              \* position in the code
    moves            \* history: the loop bodies executed so far, oldest first

vars == <<sequence1, sequence2, seq_rows, seq_columns, matrix, row, column,
          row_index, column_index, seq_one_final, seq_two_final, result, pc,
          moves>>

----------------------------------------------------------------------------
(* Bounds and input sets *)

MaxLen == 3
MaxDim == 2

Alphabet == {"A", "C", "-"}
ContractAlphabet == {"A", "C"}

GapMarker == "-"
None == <<>>

SeqsUpTo(S, n) == UNION {[1..k -> S] : k \in 0..n}

Prefixes(s) == {SubSeq(s, 1, k) : k \in 0..Len(s)}

\* The classic pair of the regression scenario.
FixtureOne == <<"G", "A", "T", "T", "A", "C", "A">>
FixtureTwo == <<"G", "C", "A", "T", "G", "C", "U">>

\* The shortest pair on which the three candidates of a cell are all equal.
TieOne == <<"A", "C", "A", "A">>
TieTwo == <<"C", "A", "C", "C">>

Inputs ==
    (SeqsUpTo(Alphabet, MaxLen) \X SeqsUpTo(Alphabet, MaxLen))
        \cup (Prefixes(TieOne) \X Prefixes(TieTwo))

FixtureInputs == Prefixes(FixtureOne) \X Prefixes(FixtureTwo)

----------------------------------------------------------------------------
(* The matrix *)

Rows(m) == Cardinality(DOMAIN m)            \* matrix.shape[0]
Columns(m) == Cardinality(DOMAIN m[0])      \* matrix.shape[1]

InShape(m, i, j) ==
    /\ i \in DOMAIN m
    /\ j \in DOMAIN m[i]

NewMatrix(one_size, two_size) ==
    [i \in 0..(one_size - 1) |-> [j \in 0..(two_size - 1) |-> None]]

Max2(a, b) == IF a >= b THEN a ELSE b
Max3(a, b, c) == Max2(a, Max2(b, c))

gap_penalty == -2

\* ScoringMatrix that never sees a match.
ScoringMatrixMismatchOnly(current_row, current_column, seq1, seq2) == -1

ScoringMatrix(current_row, current_column, seq1, seq2) ==
    LET SeqLetterOne == seq1[current_row]
        SeqLetterTwo == seq2[current_column]
    IN  IF SeqLetterOne = SeqLetterTwo THEN 1 ELSE -1

\* Does the loop body of PopulateMatrix raise at row i, column j?  An index
\* outside the array or the strings raises IndexError, None + int TypeError.
CellRaises(m, i, j, seq1, seq2) ==
    \/ ~InShape(m, i, j)
    \/ /\ i = 0 /\ j > 0
       /\ m[i][j - 1] = None
    \/ /\ i > 0 /\ j = 0
       /\ m[i - 1][j] = None
    \/ /\ i > 0 /\ j > 0
       /\ \/ i > Len(seq1)
          \/ j > Len(seq2)
          \/ m[i - 1][j - 1] = None
          \/ m[i - 1][j] = None
          \/ m[i][j - 1] = None

\* CellValue with an insertion penalised by one less than a deletion.
CellValueCheapInsert(m, i, j, seq1, seq2) ==
    IF i = 0 /\ j = 0 THEN 0
    ELSE IF i = 0 THEN m[i][j - 1][1] + gap_penalty
    ELSE IF j = 0 THEN m[i - 1][j][1] + gap_penalty
    ELSE LET match_mismatch == m[i - 1][j - 1][1]
                                  + ScoringMatrix(i, j, seq1, seq2)
             delete == m[i - 1][j][1] + gap_penalty
             insert == m[i][j - 1][1] + gap_penalty + 1
         IN  Max3(match_mismatch, delete, insert)

\* CellValue with the first column left without gap penalty.
CellValueFirstColumnZero(m, i, j, seq1, seq2) ==
    IF i = 0 /\ j = 0 THEN 0
    ELSE IF i = 0 THEN m[i][j - 1][1] + gap_penalty
    ELSE IF j = 0 THEN m[i - 1][j][1]
    ELSE LET match_mismatch == m[i - 1][j - 1][1]
                                  + ScoringMatrix(i, j, seq1, seq2)
             delete == m[i - 1][j][1] + gap_penalty
             insert == m[i][j - 1][1] + gap_penalty
         IN  Max3(match_mismatch, delete, insert)

\* The value the loop body stores at row i, column j.
CellValue(m, i, j, seq1, seq2) ==
    IF i = 0 /\ j = 0 THEN 0
    ELSE IF i = 0 THEN m[i][j - 1][1] + gap_penalty
    ELSE IF j = 0 THEN m[i - 1][j][1] + gap_penalty
    ELSE LET match_mismatch == m[i - 1][j - 1][1]
                                  + ScoringMatrix(i, j, seq1, seq2)
             delete == m[i - 1][j][1] + gap_penalty
             insert == m[i][j - 1][1] + gap_penalty
         IN  Max3(match_mismatch, delete, insert)

\* The two nested loops of PopulateMatrix run to their end, from iteration
\* k = i * columns + j (row i, column j) onwards.
RECURSIVE FillFrom(_, _, _, _, _, _)
FillFrom(m, k, rows, columns, seq1, seq2) ==
    IF k >= rows * columns THEN [raised |-> FALSE, matrix |-> m]
    ELSE LET i == k \div columns
             j == k % columns
         IN  IF CellRaises(m, i, j, seq1, seq2)
             THEN [raised |-> TRUE, matrix |-> m]
             ELSE FillFrom(
                      [m EXCEPT ![i][j] =
                                   <<CellValue(m, i, j, seq1, seq2)>>],
                      k + 1, rows, columns, seq1, seq2)

----------------------------------------------------------------------------
(* BackTracking's candidates and tie-break *)

DiagonalScore(m, r, c, seq_one, seq_two) ==
    m[r - 1][c - 1][1] + ScoringMatrix(r, c, seq_one, seq_two)

UpperScore(m, r, c) == m[r - 1][c][1] + (-2)

SideScore(m, r, c) == m[r][c - 1][1] + (-2)

\* Does the body of the first loop raise at (r, c)?
WalkRaises(m, r, c, seq_one, seq_two) ==
    \/ m[r - 1][c - 1] = None
    \/ r > Len(seq_one)
    \/ c > Len(seq_two)
    \/ m[r - 1][c] = None
    \/ m[r][c - 1] = None

\* ChooseMove with the diagonal winning ties.
ChooseMoveDiagonalOnTies(diagonal_score, upper_score, side_score) ==
    IF diagonal_score >= upper_score /\ diagonal_score >= side_score
    THEN "diag"
    ELSE IF upper_score > side_score THEN "up" ELSE "left"

\* ChooseMove with the comparison of up and left reversed.
ChooseMoveSwapped(diagonal_score, upper_score, side_score) ==
    IF diagonal_score > upper_score /\ diagonal_score > side_score
    THEN "diag"
    ELSE IF upper_score < side_score THEN "up" ELSE "left"

ChooseMove(diagonal_score, upper_score, side_score) ==
    IF diagonal_score > upper_score /\ diagonal_score > side_score
    THEN "diag"
    ELSE IF upper_score > side_score THEN "up" ELSE "left"

----------------------------------------------------------------------------
(* Initial state and the callers of the core *)

\* Before a row is read: `seq_one, seq_two = '', ''`, no array yet.
Init ==
    /\ sequence1 = <<>>
    /\ sequence2 = <<>>
    /\ seq_rows = 0
    /\ seq_columns = 0
    /\ matrix = None
    /\ row = 0
    /\ column = 0
    /\ row_index = 0
    /\ column_index = 0
    /\ seq_one_final = <<>>
    /\ seq_two_final = <<>>
    /\ result = None
    /\ pc = "read"
    /\ moves = <<>>

\* The call PopulateMatrix(rows, columns, s1, s2, matx).
Call(s1, s2, rows, columns, matx) ==
    /\ sequence1' = s1
    /\ sequence2' = s2
    /\ seq_rows' = rows
    /\ seq_columns' = columns
    /\ matrix' = matx
    /\ row' = 0
    /\ column' = 0
    /\ pc' = "populate"
    /\ UNCHANGED <<row_index, column_index, seq_one_final, seq_two_final,
                   result, moves>>

\* ParserFile on a row: sizes and array derived from the row's two fields.
ReadRow(seq_one, seq_two) ==
    LET one_size == Len(seq_one) + 1
        two_size == Len(seq_two) + 1
    IN  Call(seq_one, seq_two, one_size, two_size,
             NewMatrix(one_size, two_size))

ParserFile ==
    /\ pc = "read"
    /\ \E pair \in Inputs : ReadRow(pair[1], pair[2])

ParserFileFixture ==
    /\ pc = "read"
    /\ \E pair \in FixtureInputs : ReadRow(pair[1], pair[2])

\* PopulateMatrix called by an arbitrary caller: nothing ties the sizes,
\* the array (of at least one row and one column) and the strings together.
AnyCaller ==
    /\ pc = "read"
    /\ \E s1 \in SeqsUpTo(ContractAlphabet, MaxDim),
          s2 \in SeqsUpTo(ContractAlphabet, MaxDim),
          rows \in 1..(MaxDim + 1), columns \in 1..(MaxDim + 1),
          shape0 \in 1..(MaxDim + 1), shape1 \in 1..(MaxDim + 1) :
           Call(s1, s2, rows, columns, NewMatrix(shape0, shape1))

----------------------------------------------------------------------------
(* Actions *)

\* One iteration of the inner loop of PopulateMatrix, at (row, column).
PopulateMatrix ==
    /\ pc = "populate"
    /\ row < seq_rows /\ column < seq_columns
    /\ IF CellRaises(matrix, row, column, sequence1, sequence2)
       THEN /\ pc' = "error"
            /\ UNCHANGED <<matrix, row, column>>
       ELSE /\ pc' = "populate"
            /\ matrix' = [matrix EXCEPT ![row][column] =
                   <<CellValue(matrix, row, column, sequence1, sequence2)>>]
            /\ row' = IF column + 1 < seq_columns THEN row ELSE row + 1
            /\ column' = IF column + 1 < seq_columns THEN column + 1 ELSE 0
    /\ UNCHANGED <<sequence1, sequence2, seq_rows, seq_columns, row_index,
                   column_index, seq_one_final, seq_two_final, result, moves>>

\* The loops are over: `return BackTracking(matrix, seq1, seq2)` up to the
\* entry of its first loop.
BackTracking ==
    /\ pc = "populate"
    /\ ~(row < seq_rows /\ column < seq_columns)
    /\ pc' = "walking"
    /\ seq_one_final' = <<>>
    /\ seq_two_final' = <<>>
    /\ row_index' = Rows(matrix) - 1
    /\ column_index' = Columns(matrix) - 1
    /\ UNCHANGED <<sequence1, sequence2, seq_rows, seq_columns, matrix, row,
                   column, result, moves>>

\* One iteration of `while row_index > 0 and column_index > 0`.
Walk ==
    /\ pc = "walking"
    /\ row_index > 0 /\ column_index > 0
    /\ IF WalkRaises(matrix, row_index, column_index, sequence1, sequence2)
       THEN /\ pc' = "error"
            /\ UNCHANGED <<row_index, column_index, seq_one_final,
                           seq_two_final, moves>>
       ELSE LET diagonal_score == DiagonalScore(matrix, row_index,
                                      column_index, sequence1, sequence2)
                upper_score == UpperScore(matrix, row_index, column_index)
                side_score == SideScore(matrix, row_index, column_index)
                move == ChooseMove(diagonal_score, upper_score, side_score)
            IN  /\ pc' = "walking"
                /\ moves' = Append(moves, move)
                /\ seq_one_final' =
                       IF move = "left"
                       THEN <<GapMarker>> \o seq_one_final
                       ELSE <<sequence1[row_index]>> \o seq_one_final
                /\ seq_two_final' =
                       IF move = "up"
                       THEN <<GapMarker>> \o seq_two_final
                       ELSE <<sequence2[column_index]>> \o seq_two_final
                /\ row_index' =
                       IF move = "left" THEN row_index ELSE row_index - 1
                /\ column_index' =
                       IF move = "up" THEN column_index
                       ELSE column_index - 1
    /\ UNCHANGED <<sequence1, sequence2, seq_rows, seq_columns, matrix, row,
                   column, result>>

\* EndWalk with the two tests exchanged.
EndWalkSwapped ==
    /\ pc = "walking"
    /\ ~(row_index > 0 /\ column_index > 0)
    /\ pc' = IF row_index = 0 THEN "drain_rows"
             ELSE IF column_index = 0 THEN "drain_cols"
             ELSE "output"
    /\ UNCHANGED <<sequence1, sequence2, seq_rows, seq_columns, matrix, row,
                   column, row_index, column_index, seq_one_final, seq_two_final,
                   result, moves>>

\* The first loop's test fails; `if column_index == 0 ... elif row_index == 0`.
EndWalk ==
    /\ pc = "walking"
    /\ ~(row_index > 0 /\ column_index > 0)
    /\ pc' = IF column_index = 0 THEN "drain_rows"
             ELSE IF row_index = 0 THEN "drain_cols"
             ELSE "output"
    /\ UNCHANGED <<sequence1, sequence2, seq_rows, seq_columns, matrix, row,
                   column, row_index, column_index, seq_one_final, seq_two_final,
                   result, moves>>

\* DrainRows that puts no gap marker into the second output.
DrainRowsNoGap ==
    /\ pc = "drain_rows"
    /\ row_index # 0
    /\ IF row_index > Len(sequence1)
       THEN /\ pc' = "error"
            /\ UNCHANGED <<row_index, seq_one_final, seq_two_final, moves>>
       ELSE /\ pc' = "drain_rows"
            /\ seq_one_final' = <<sequence1[row_index]>> \o seq_one_final
            /\ seq_two_final' = seq_two_final
            /\ row_index' = row_index - 1
            /\ moves' = Append(moves, "row")
    /\ UNCHANGED <<sequence1, sequence2, seq_rows, seq_columns, matrix, row,
                   column, column_index, result>>

\* One iteration of `while row_index != 0`.
DrainRows ==
    /\ pc = "drain_rows"
    /\ row_index # 0
    /\ IF row_index > Len(sequence1)
       THEN /\ pc' = "error"
            /\ UNCHANGED <<row_index, seq_one_final, seq_two_final, moves>>
       ELSE /\ pc' = "drain_rows"
            /\ seq_one_final' = <<sequence1[row_index]>> \o seq_one_final
            /\ seq_two_final' = <<GapMarker>> \o seq_two_final
            /\ row_index' = row_index - 1
            /\ moves' = Append(moves, "row")
    /\ UNCHANGED <<sequence1, sequence2, seq_rows, seq_columns, matrix, row,
                   column, column_index, result>>

\* One iteration of `while column_index != 0`.
DrainCols ==
    /\ pc = "drain_cols"
    /\ column_index # 0
    /\ IF column_index > Len(sequence2)
       THEN /\ pc' = "error"
            /\ UNCHANGED <<column_index, seq_one_final, seq_two_final, moves>>
       ELSE /\ pc' = "drain_cols"
            /\ seq_two_final' = <<sequence2[column_index]>> \o seq_two_final
            /\ seq_one_final' = <<GapMarker>> \o seq_one_final
            /\ column_index' = column_index - 1
            /\ moves' = Append(moves, "col")
    /\ UNCHANGED <<sequence1, sequence2, seq_rows, seq_columns, matrix, row,
                   column, row_index, result>>

\* The drain loop that was entered (if any) has finished.
DrainFinished ==
    CASE pc = "drain_rows" -> row_index = 0
      [] pc = "drain_cols" -> column_index = 0
      [] OTHER -> pc = "output"

\* The formatted line: the two outputs and matrix[-1, -1].
Output ==
    /\ DrainFinished
    /\ result' = matrix[Rows(matrix) - 1][Columns(matrix) - 1]
    /\ pc' = "done"
    /\ UNCHANGED <<sequence1, sequence2, seq_rows, seq_columns, matrix, row,
                   column, row_index, column_index, seq_one_final, seq_two_final,
                   moves>>

Core ==
    \/ PopulateMatrix
    \/ BackTracking
    \/ Walk
    \/ EndWalk
    \/ DrainRows
    \/ DrainCols
    \/ Output

Next == ParserFile \/ Core

NextFixture == ParserFileFixture \/ Core

NextContract == AnyCaller \/ Core

Spec == Init /\ [][Next]_vars

\* The code runs to completion: no step that can be taken is put off forever.
FairSpec == Init /\ [][Next]_vars /\ WF_vars(Next)

SpecFixture == Init /\ [][NextFixture]_vars

SpecContract == Init /\ [][NextContract]_vars

----------------------------------------------------------------------------
(* Definitions used to state the properties *)

M == Len(sequence1)
N == Len(sequence2)

WalkMoves == {"diag", "up", "left"}
DrainMoves == {"row", "col"}

Populated == pc \in {"walking", "drain_rows", "drain_cols", "output", "done"}

NoGapMarkerInInputs ==
    /\ \A k \in 1..M : sequence1[k] # GapMarker
    /\ \A k \in 1..N : sequence2[k] # GapMarker

\* Every global alignment of seq1[1..i] with seq2[1..j], as its columns read
\* left to right: "diag" pairs two symbols, "up" puts a symbol of seq1 over a
\* gap, "left" a gap over a symbol of seq2.
RECURSIVE Alignments(_, _)
Alignments(i, j) ==
    IF i = 0 /\ j = 0 THEN {<<>>}
    ELSE (IF i > 0 /\ j > 0
          THEN {Append(a, "diag") : a \in Alignments(i - 1, j - 1)} ELSE {})
         \cup (IF i > 0
               THEN {Append(a, "up") : a \in Alignments(i - 1, j)} ELSE {})
         \cup (IF j > 0
               THEN {Append(a, "left") : a \in Alignments(i, j - 1)} ELSE {})

\* Score of alignment a of seq1[1..i] with seq2[1..j].
RECURSIVE AlignmentScore(_, _, _, _, _)
AlignmentScore(a, i, j, seq1, seq2) ==
    IF a = <<>> THEN 0
    ELSE LET last == a[Len(a)]
             front == SubSeq(a, 1, Len(a) - 1)
         IN  CASE last = "diag" ->
                    AlignmentScore(front, i - 1, j - 1, seq1, seq2)
                        + (IF seq1[i] = seq2[j] THEN 1 ELSE -1)
               [] last = "up" ->
                    AlignmentScore(front, i - 1, j, seq1, seq2) - 2
               [] last = "left" ->
                    AlignmentScore(front, i, j - 1, seq1, seq2) - 2

OptimalScore(i, j, seq1, seq2) ==
    LET scores == {AlignmentScore(a, i, j, seq1, seq2) : a \in Alignments(i, j)}
    IN  CHOOSE best \in scores : \A s \in scores : best >= s

\* An emitted column scored by what it shows.
ColumnScore(a, b) ==
    IF a = GapMarker \/ b = GapMarker THEN -2
    ELSE IF a = b THEN 1 ELSE -1

RECURSIVE ColumnSumFrom(_, _, _)
ColumnSumFrom(x, y, k) ==
    IF k > Len(x) \/ k > Len(y) THEN 0
    ELSE ColumnScore(x[k], y[k]) + ColumnSumFrom(x, y, k + 1)

ColumnSum(x, y) == ColumnSumFrom(x, y, 1)

IsSymbol(c) == c # GapMarker
StripGaps(s) == SelectSeq(s, IsSymbol)
Gaps(n) == [k \in 1..n |-> GapMarker]

FinalCell == matrix[Rows(matrix) - 1][Columns(matrix) - 1]

\* The cell the last iteration of the first loop started from.
LastWalkRow == IF moves[Len(moves)] = "left" THEN row_index ELSE row_index + 1
LastWalkColumn ==
    IF moves[Len(moves)] = "up" THEN column_index ELSE column_index + 1
LastWalkCost ==
    IF moves[Len(moves)] = "diag"
    THEN (IF sequence1[LastWalkRow] = sequence2[LastWalkColumn] THEN 1 ELSE -1)
    ELSE -2
AfterWalkStep == pc = "walking" /\ moves # <<>>

----------------------------------------------------------------------------
\* PopulateMatrix has filled the matrix and hands it to BackTracking.
MatrixFilled == pc = "walking" /\ moves = <<>>

\* C1: in the matrix PopulateMatrix has filled, every cell (i, j) holds the
\* maximum score over all global alignments of seq1[1..i] with seq2[1..j]
\* (match +1, mismatch -1, gap column -2); cell (0,0) = 0, (i,0) = -2i,
\* (0,j) = -2j.
C1_MatrixHoldsOptimalScores ==
    MatrixFilled =>
        \A i \in 0..M, j \in 0..N :
            /\ matrix[i][j] = <<OptimalScore(i, j, sequence1, sequence2)>>
            /\ (j = 0 => matrix[i][j] = <<-2 * i>>)
            /\ (i = 0 => matrix[i][j] = <<-2 * j>>)

C1_Witness ==
    /\ MatrixFilled
    /\ M >= 2 /\ N >= 2 /\ M # N
    /\ sequence1[1] # sequence2[1]

\* C2 as stated: for all inputs the emitted columns (+1 equal symbols, -1
\* different symbols, -2 for a column containing a gap marker) sum to the
\* reported score, the matrix's final cell.
C2_ColumnsSumToScore ==
    pc = "done" =>
        /\ result = FinalCell
        /\ ColumnSum(seq_one_final, seq_two_final) = result[1]

\* C2 amended: for inputs without the gap marker the columns emitted so far
\* plus the current cell always make up the final cell, so at the end the
\* columns sum to the reported score; and for all inputs each step of the
\* first loop takes a move whose candidate equals the cell it started from.
C2_ColumnsSumToScoreWithoutGapInputs ==
    /\ (NoGapMarkerInInputs /\ pc \in {"walking", "drain_rows", "drain_cols"}) =>
           ColumnSum(seq_one_final, seq_two_final)
               + matrix[row_index][column_index][1] = FinalCell[1]
    /\ (NoGapMarkerInInputs /\ pc = "done") =>
           /\ result = FinalCell
           /\ ColumnSum(seq_one_final, seq_two_final) = result[1]
    /\ AfterWalkStep =>
           matrix[LastWalkRow][LastWalkColumn][1] =
               matrix[row_index][column_index][1] + LastWalkCost

C2_Witness ==
    /\ pc = "done"
    /\ NoGapMarkerInInputs
    /\ \E k \in 1..Len(moves) : moves[k] = "up"
    /\ \E k \in 1..Len(moves) : moves[k] = "diag"
    /\ \E k \in 1..Len(seq_one_final) :
           seq_one_final[k] # seq_two_final[k] /\ seq_two_final[k] # GapMarker

\* C3: for inputs without the gap marker, after every step the two outputs
\* have equal length, stripped of gap markers they are the consumed suffixes
\* of the inputs (at the end the whole inputs), and no column is two gaps.
C3_WellFormedAlignment ==
    (NoGapMarkerInInputs /\ Populated) =>
        /\ Len(seq_one_final) = Len(seq_two_final)
        /\ StripGaps(seq_one_final) = SubSeq(sequence1, row_index + 1, M)
        /\ StripGaps(seq_two_final) = SubSeq(sequence2, column_index + 1, N)
        /\ \A k \in 1..Len(seq_one_final) :
               ~(seq_one_final[k] = GapMarker /\ seq_two_final[k] = GapMarker)
        /\ pc = "done" =>
               /\ StripGaps(seq_one_final) = sequence1
               /\ StripGaps(seq_two_final) = sequence2

C3_Witness ==
    /\ pc = "done"
    /\ NoGapMarkerInInputs
    /\ M >= 2 /\ N >= 1
    /\ \E k \in 1..Len(moves) : moves[k] = "row"
    /\ \E k \in 1..Len(moves) : moves[k] = "left"

\* C4 as stated: GATTACA against GCATGCU is reported with score 0.
C4_FixtureScoreIsZero ==
    (pc = "done" /\ sequence1 = FixtureOne /\ sequence2 = FixtureTwo) =>
        result = <<0>>

\* C4 amended: GATTACA against GCATGCU is reported with score -1.
C4_FixtureScoreIsMinusOne ==
    (pc = "done" /\ sequence1 = FixtureOne /\ sequence2 = FixtureTwo) =>
        result = <<-1>>

C4_Witness ==
    /\ pc = "done" /\ sequence1 = FixtureOne /\ sequence2 = FixtureTwo
    /\ Len(seq_one_final) = 7

\* C5: a non-empty sequence aligned with itself comes out unchanged on both
\* sides, with score len(A), by diagonal moves only.
C5_SelfAlignment ==
    (pc = "done" /\ sequence1 = sequence2 /\ M >= 1) =>
        /\ seq_one_final = sequence1
        /\ seq_two_final = sequence1
        /\ result = <<M>>
        /\ moves = [k \in 1..M |-> "diag"]

C5_Witness ==
    /\ pc = "done" /\ sequence1 = sequence2 /\ M >= 3
    /\ \E k \in 1..M : sequence1[k] # sequence1[1]

\* C6: against the empty sequence the other sequence is emitted over (or
\* under) gap markers with score -2 * length; the first loop takes no step
\* and only the matching drain loop does; two empty inputs give two empty
\* outputs and score 0.
C6_AgainstEmpty ==
    /\ (pc = "done" /\ sequence2 = <<>>) =>
           /\ seq_one_final = sequence1
           /\ seq_two_final = Gaps(M)
           /\ result = <<-2 * M>>
           /\ moves = [k \in 1..M |-> "row"]
    /\ (pc = "done" /\ sequence1 = <<>>) =>
           /\ seq_one_final = Gaps(N)
           /\ seq_two_final = sequence2
           /\ result = <<-2 * N>>
           /\ moves = [k \in 1..N |-> "col"]
    /\ (pc = "done" /\ sequence1 = <<>> /\ sequence2 = <<>>) =>
           /\ seq_one_final = <<>>
           /\ seq_two_final = <<>>
           /\ result = <<0>>
           /\ moves = <<>>

C6_Witness ==
    /\ pc = "done" /\ sequence2 = <<>> /\ M >= 2
    /\ seq_two_final = Gaps(M)

\* The matrix PopulateMatrix builds when called as ParserFile calls it.
MatrixOf(seq1, seq2) ==
    FillFrom(NewMatrix(Len(seq1) + 1, Len(seq2) + 1), 0,
             Len(seq1) + 1, Len(seq2) + 1, seq1, seq2).matrix

\* C7: the matrix built for (B, A) is the transpose of the one built for
\* (A, B), so both orders report the same score.
C7_ScoreIsSymmetric ==
    Populated =>
        LET swapped == MatrixOf(sequence2, sequence1)
        IN  /\ \A i \in 0..M, j \in 0..N : swapped[j][i] = matrix[i][j]
            /\ pc = "done" => result = swapped[N][M]

C7_Witness ==
    /\ pc = "done"
    /\ M # N /\ M >= 1 /\ N >= 1
    /\ sequence1[1] # sequence2[1]

DimensionsAgree ==
    /\ seq_rows = M + 1
    /\ seq_columns = N + 1
    /\ Rows(matrix) = M + 1
    /\ Columns(matrix) = N + 1

\* C8: called with sizes, array and sequences that disagree, the core ends
\* in an error and never returns an alignment.
C8_MismatchFailsLoudly ==
    ~DimensionsAgree => pc \notin {"output", "done"}

\* A step of the first loop at (i, j) goes diagonally iff diag > up and
\* diag > left, otherwise up (gap in output 2) iff up > left, otherwise left
\* (gap in output 1).
C9_StepFollowsTieBreak ==
    (pc = "walking" /\ row_index > 0 /\ column_index > 0) =>
        LET diag == matrix[row_index - 1][column_index - 1][1]
                        + (IF sequence1[row_index] = sequence2[column_index]
                           THEN 1 ELSE -1)
            up == matrix[row_index - 1][column_index][1] - 2
            left == matrix[row_index][column_index - 1][1] - 2
            wentDiag == /\ row_index' = row_index - 1
                        /\ column_index' = column_index - 1
                        /\ seq_one_final' = <<sequence1[row_index]>> \o seq_one_final
                        /\ seq_two_final' = <<sequence2[column_index]>> \o seq_two_final
            wentUp == /\ row_index' = row_index - 1
                      /\ column_index' = column_index
                      /\ seq_one_final' = <<sequence1[row_index]>> \o seq_one_final
                      /\ seq_two_final' = <<GapMarker>> \o seq_two_final
            wentLeft == /\ row_index' = row_index
                        /\ column_index' = column_index - 1
                        /\ seq_one_final' = <<GapMarker>> \o seq_one_final
                        /\ seq_two_final' = <<sequence2[column_index]>> \o seq_two_final
        IN  IF diag > up /\ diag > left THEN wentDiag
            ELSE IF up > left THEN wentUp
            ELSE wentLeft

\* C9: every step of the first loop follows the tie-break rule: diagonal iff
\* diag > up and diag > left, else up iff up > left, else left.
C9_TieBreak == [][C9_StepFollowsTieBreak]_vars

\* A step that went left from a cell whose three candidates were equal.
C9_Witness ==
    /\ AfterWalkStep
    /\ moves[Len(moves)] = "left"
    /\ LET r == LastWalkRow
           c == LastWalkColumn
           diag == matrix[r - 1][c - 1][1]
                       + (IF sequence1[r] = sequence2[c] THEN 1 ELSE -1)
           up == matrix[r - 1][c][1] - 2
           left == matrix[r][c - 1][1] - 2
       IN  diag = up /\ up = left

C10_Order(k, l) ==
    /\ moves[k] \in DrainMoves => moves[l] = moves[k]

C10_Invariant ==
    /\ row_index >= 0
    /\ column_index >= 0
    /\ Len(moves) <= M + N
    /\ pc = "done" => row_index = 0 /\ column_index = 0
    /\ pc = "drain_rows" => column_index = 0
    /\ pc = "drain_cols" => row_index = 0
    /\ pc # "output"
    /\ \A k \in 1..Len(moves), l \in 1..Len(moves) : k < l => C10_Order(k, l)

C10_Step ==
    /\ moves' # moves =>
           /\ Len(moves') = Len(moves) + 1
           /\ row_index' + column_index' < row_index + column_index
           /\ moves'[Len(moves')] \in WalkMoves =>
                  /\ pc = "walking" /\ row_index > 0 /\ column_index > 0
           /\ moves'[Len(moves')] = "row" =>
                  /\ pc = "drain_rows" /\ column_index = 0
           /\ moves'[Len(moves')] = "col" =>
                  /\ pc = "drain_cols" /\ row_index = 0
    /\ moves' = moves =>
           \/ row_index' + column_index' = row_index + column_index
           \/ pc' = "walking" /\ pc = "populate"
    /\ (Populated /\ row_index = 0 /\ column_index = 0) => moves' = moves
    /\ pc' # pc =>
           <<pc, pc'>> \in {<<"read", "populate">>,
                            <<"populate", "walking">>,
                            <<"walking", "drain_rows">>,
                            <<"walking", "drain_cols">>,
                            <<"drain_rows", "done">>,
                            <<"drain_cols", "done">>}

\* C10: reconstruction ends in DONE at (0, 0) after at most len(seq1) +
\* len(seq2) steps, each lowering row + column, neither index below 0; the
\* phases come in the order WALKING, one drain, DONE, with walking steps
\* only while both indices are positive, a drain step only at index 0 of
\* the other side, never steps of both drains, none after reaching (0, 0).
C10_TerminatesInPhaseOrder ==
    /\ []C10_Invariant
    /\ [][C10_Step]_vars
    /\ <>(pc = "done")

C10_Witness ==
    /\ pc = "done"
    /\ M >= 2
    /\ \E k \in 1..Len(moves) : moves[k] \in WalkMoves
    /\ \E k \in 1..Len(moves) : moves[k] = "col"

====
